---- MODULE Spec2Model ----
(***************************************************************************)
(* Model of charlotte's action helpers (src/utils/helpers/actions.py):     *)
(* the fuzzy matchers find and string_match, play_music, the attribute    *)
(* selection of play_music_by_attribute, and the weather reports           *)
(* current_weather, forecast_weather and current_forecast_weather.         *)
(*                                                                         *)
(* A Python string is a sequence of one-character strings.  The three      *)
(* apology messages are kept as sequences whose fixed parts are one token  *)
(* each; no modelled file name or tag is long enough to spell one out.     *)
(* The fuzzywuzzy calls are modelled by what the pure-python package does  *)
(* (difflib.SequenceMatcher, no python-Levenshtein speed-up).              *)
(***************************************************************************)
EXTENDS Integers, Sequences, FiniteSets, TLC

VARIABLES op, pc, args, env, ret, raised, logged, started, trace

vars == <<op, pc, args, env, ret, raised, logged, started, trace>>

-----------------------------------------------------------------------------
(* Bounds of the model *)

MaxCands == 3     \* longest candidate list (text_list, files of a directory)
MaxRows == 2      \* most rows of the music dataset

(* Program constants *)

Limit == 3              \* extract(..., limit=3)
DefaultMinScore == 65   \* min_score: int = 65
no_match_score == 0     \* no_match_score = 0

-----------------------------------------------------------------------------
(* Python values: None, a str, or the pair find returns *)

None == [t |-> "None", s |-> << >>, n |-> 0]
Str(s) == [t |-> "str", s |-> s, n |-> 0]
Pair(s, n) == [t |-> "tuple", s |-> s, n |-> n]

-----------------------------------------------------------------------------
(* Characters and strings *)

Letters == {"a", "b", "A", "B"}
DigitChars == <<"0", "1", "2", "3", "4", "5", "6", "7", "8", "9">>

\* str.lower on one character
LowerChar(c) == CASE c = "A" -> "a" [] c = "B" -> "b" [] OTHER -> c

\* str.lower
Lower(s) == [i \in 1..Len(s) |-> LowerChar(s[i])]

\* \W of the regular expression: neither a letter, a digit nor "_"
IsWordChar(c) == c \in Letters \/ c = "_" \/ \E i \in 1..10 : DigitChars[i] = c

\* StringProcessor.replace_non_letters_non_numbers_with_whitespace
ReplaceNonWord(s) == [i \in 1..Len(s) |-> IF IsWordChar(s[i]) THEN s[i] ELSE " "]

\* str.strip
RECURSIVE Strip(_)
Strip(s) ==
    IF s = << >> THEN s
    ELSE IF Head(s) = " " THEN Strip(Tail(s))
    ELSE IF s[Len(s)] = " " THEN Strip(SubSeq(s, 1, Len(s) - 1))
    ELSE s

\* fuzzywuzzy.utils.full_process: the default processor of extract
full_process(s) == Strip(Lower(ReplaceNonWord(s)))

\* str(n) for a natural number
RECURSIVE IntStr(_)
IntStr(n) == IF n < 10 THEN <<DigitChars[n + 1]>>
             ELSE IntStr(n \div 10) \o <<DigitChars[(n % 10) + 1]>>

\* str((choice, score)): what make_type_consistent turns the tuple into
TupleStr(choice, score) ==
    <<"(", "'">> \o choice \o <<"'", ",", " ">> \o IntStr(score) \o <<")">>

-----------------------------------------------------------------------------
(* difflib.SequenceMatcher and fuzz.partial_ratio.  Offsets are Python's:  *)
(* 0-based, half-open; a[i] of Python is a[i + 1] here.                    *)

\* the one element of a singleton: Only({F(x) : x \in {e}}) is F(e), with e
\* evaluated once
Only(S) == CHOOSE x \in S : TRUE

\* the length of the longest common run that starts at a[i] and b[j]
RECURSIVE RunLen(_, _, _, _, _, _)
RunLen(a, b, i, j, ahi, bhi) ==
    IF i < ahi /\ j < bhi /\ a[i + 1] = b[j + 1]
      THEN 1 + Only({RunLen(a, b, i1, j1, ahi, bhi) : i1 \in {i + 1}, j1 \in {j + 1}})
      ELSE 0

SetMax(S) == CHOOSE x \in S : \A y \in S : y <= x
SetMin(S) == CHOOSE x \in S : \A y \in S : x <= y

\* the earliest in a among the runs of length k, the earliest in b among those
longest_run(runs, k, alo, blo) ==
    IF k = 0 THEN <<alo, blo, 0>>
    ELSE CHOOSE m \in runs :
            /\ m[3] = k
            /\ \A r \in runs :
                  r[3] = k => (m[1] < r[1] \/ (m[1] = r[1] /\ m[2] <= r[2]))

\* the longest of the runs
best_run(runs, alo, blo) ==
    Only({longest_run(runs, k, alo, blo) : k \in {SetMax({m[3] : m \in runs} \cup {0})}})

\* SequenceMatcher.find_longest_match: the longest common run, the earliest
\* in a among the longest, the earliest in b among those; (alo, blo, 0) if none
find_longest_match(a, b, alo, ahi, blo, bhi) ==
    Only({best_run(runs, alo, blo) :
            runs \in {{<<i, j, RunLen(a, b, i, j, ahi, bhi)>> :
                          i \in alo..(ahi - 1), j \in blo..(bhi - 1)}}})

\* SequenceMatcher.get_matching_blocks without the closing (la, lb, 0) block
RECURSIVE matching_blocks(_, _, _, _, _, _)
matching_blocks(a, b, alo, ahi, blo, bhi) ==
    LET m == find_longest_match(a, b, alo, ahi, blo, bhi)
        i == m[1]
        j == m[2]
        k == m[3]
    IN  IF k = 0 THEN {}
        ELSE (IF alo < i /\ blo < j
                THEN matching_blocks(a, b, alo, i, blo, j) ELSE {})
             \cup {m}
             \cup (IF i + k < ahi /\ j + k < bhi
                     THEN matching_blocks(a, b, i + k, ahi, j + k, bhi) ELSE {})

get_matching_blocks(a, b) ==
    matching_blocks(a, b, 0, Len(a), 0, Len(b)) \cup {<<Len(a), Len(b), 0>>}

RECURSIVE SumSizes(_)
SumSizes(blocks) ==
    IF blocks = {} THEN 0
    ELSE LET m == CHOOSE x \in blocks : TRUE
         IN  m[3] + SumSizes(blocks \ {m})

\* utils.intr(100 * SequenceMatcher.ratio()) = int(round(200 * M / T)),
\* Python 3 rounding a half to the even neighbour
RatioPercent(a, b) ==
    LET M == SumSizes(get_matching_blocks(a, b))
        T == Len(a) + Len(b)
        q == (200 * M) \div T
        r == (200 * M) % T
    IN  IF T = 0 THEN 100
        ELSE IF 2 * r > T THEN q + 1
        ELSE IF 2 * r = T THEN q + (q % 2)
        ELSE q

\* the slice longer[lo:hi], clipped like Python's
Slice(s, lo, hi) == SubSeq(s, lo + 1, IF hi < Len(s) THEN hi ELSE Len(s))

\* the body of fuzz.partial_ratio on two str: the best ratio of the shorter
\* string against the windows of the longer one its matching blocks point at
\* (a ratio above .995 returns 100 at once, which is the maximum anyway)
partial_ratio_str(s1, s2) ==
    LET shorter == IF Len(s1) <= Len(s2) THEN s1 ELSE s2
        longer == IF Len(s1) <= Len(s2) THEN s2 ELSE s1
        blocks == get_matching_blocks(shorter, longer)
        Window(block) ==
            LET long_start == IF block[2] - block[1] > 0
                                THEN block[2] - block[1] ELSE 0
            IN  Slice(longer, long_start, long_start + Len(shorter))
    IN  SetMax({RatioPercent(shorter, Window(block)) : block \in blocks})

\* fuzz.partial_ratio with its decorators check_for_equivalence and
\* check_empty_string, on two str
partial_ratio(s1, s2) ==
    IF s1 = s2 THEN 100
    ELSE IF Len(s1) = 0 \/ Len(s2) = 0 THEN 0
    ELSE partial_ratio_str(s1, s2)

-----------------------------------------------------------------------------
(* fuzzywuzzy.process.extract *)

\* a candidate that is no str (a number read from the dataset): full_process
\* raises TypeError on it
NotAStr == <<"<float>">>

IsMalformed(choices) == \E i \in 1..Len(choices) : choices[i] = NotAStr

\* extractWithoutOrder: every choice with its score against the processed query
scored(query, choices) ==
    [i \in 1..Len(choices) |->
        <<choices[i], partial_ratio(full_process(query), full_process(choices[i]))>>]

\* heapq.nlargest(limit, sl, key=score): the best first, equal scores in the
\* order of the choices
RECURSIVE nlargest(_, _)
nlargest(limit, sl) ==
    IF limit = 0 \/ sl = << >> THEN << >>
    ELSE LET top == SetMax({sl[i][2] : i \in 1..Len(sl)})
             at == CHOOSE i \in 1..Len(sl) :
                      /\ sl[i][2] = top
                      /\ \A j \in 1..(i - 1) : sl[j][2] # top
             rest == [i \in 1..(Len(sl) - 1) |-> IF i < at THEN sl[i] ELSE sl[i + 1]]
         IN  <<sl[at]>> \o nlargest(limit - 1, rest)

extract(query, choices, limit) == nlargest(limit, scored(query, choices))

\* fuzz.partial_ratio(text, best_guess): best_guess is the (choice, score)
\* pair of the shortlist, not its string; check_empty_string sees the pair
\* (never empty), and the pair is scored as its str()
partial_ratio_guess(text, best_guess) ==
    IF Len(text) = 0 THEN 0
    ELSE partial_ratio_str(text, TupleStr(best_guess[1], best_guess[2]))

-----------------------------------------------------------------------------
(* The outcome of a call: its return value, whether an exception left it,  *)
(* the handlers that printed an error, and the paths given to startfile.   *)

Outcome(r, exc, log, st) == [ret |-> r, exc |-> exc, logged |-> log, started |-> st]

Returns(r) == Outcome(r, FALSE, << >>, << >>)
Raises == Outcome(None, TRUE, << >>, << >>)

\* a handler that lets the exception through
handler_reraise(name, b) == b

\* except Exception as error: print(...): the exception is caught, the
\* handler prints and the function returns None
handler(name, b) ==
    IF b.exc THEN [b EXCEPT !.ret = None, !.exc = FALSE, !.logged = @ \o <<name>>]
    ELSE b

\* try: <body> except Exception ...
try_except(name, body) == Only({handler(name, b) : b \in {body}})

-----------------------------------------------------------------------------
(* string_match *)

\* no_match_found = f'Sorry, I could\'nt find a matching \'{text}\'.'
no_match_text(text) == <<"Sorry, I could'nt find a matching '">> \o text \o <<"'.">>

\* a loop that goes on to the next shortlist entry when one fails the threshold
RECURSIVE string_match_loop_all(_, _, _)
string_match_loop_all(text, guessed, min_score) ==
    IF guessed = << >> THEN Str(no_match_text(text))
    ELSE IF /\ partial_ratio_guess(text, guessed[1]) > min_score
            /\ partial_ratio_guess(text, guessed[1]) > no_match_score
      THEN Str(guessed[1][1])
      ELSE string_match_loop_all(text, Tail(guessed), min_score)

\* the for loop over the shortlist: its first round returns, either way
string_match_loop(text, guessed, min_score) ==
    IF guessed = << >> THEN None
    ELSE LET best_guess == guessed[1]
             current_score == partial_ratio_guess(text, best_guess)
         IN  IF current_score > min_score /\ current_score > no_match_score
               THEN Str(best_guess[1])
               ELSE Str(no_match_text(text))

string_match_body(text, text_list, min_score) ==
    IF text = None THEN Returns(None)
    ELSE IF IsMalformed(text_list) THEN Raises
    ELSE Returns(string_match_loop(text.s, extract(text.s, text_list, Limit), min_score))

string_match(text, text_list, min_score) ==
    try_except("string_match", string_match_body(text, text_list, min_score))

-----------------------------------------------------------------------------
(* find *)

\* no_match_found = f'Sorry, I could\'nt find \'{file}\' in the directory.'
no_match_file(file) == <<"Sorry, I could'nt find '">> \o file \o <<"' in the directory.">>

\* the inner for loop: its first round returns, either way
find_loop(file, guessed_files, min_score) ==
    IF guessed_files = << >> THEN None
    ELSE LET best_guess == guessed_files[1]
             current_score == partial_ratio_guess(file, best_guess)
         IN  IF current_score > min_score /\ current_score > no_match_score
               THEN Pair(best_guess[1], current_score)
               ELSE Pair(no_match_file(file), no_match_score)

\* for root, _, files in walk(file_dir): a directory without files leaves the
\* inner loop at once and the walk goes on; the first directory with a file
\* decides; with none the function falls off its end
RECURSIVE find_walk(_, _, _)
find_walk(file, dirs, min_score) ==
    IF dirs = << >> THEN Returns(None)
    ELSE IF IsMalformed(Head(dirs)) THEN Raises
    ELSE IF Head(dirs) = << >> THEN find_walk(file, Tail(dirs), min_score)
    ELSE Returns(find_loop(file, extract(file, Head(dirs), Limit), min_score))

find(file, dirs, min_score) ==
    try_except("find", find_walk(file, dirs, min_score))

-----------------------------------------------------------------------------
(* play_music.  dirs is what os.walk yields for the music directory: the   *)
(* files of the directory itself, then those of its subdirectories.  The   *)
(* imports of the function (os.startfile) are taken to succeed.            *)

\* join(file_dir, file_name)
MusicPath(file_name) == <<"music/">> \o file_name

InDir(file_name, files) == \E i \in 1..Len(files) : files[i] = file_name

\* startfile(path): opens a file of the music directory itself; raises for a
\* path that does not exist there, or when the shell cannot open it
startfile(file_name, dirs, startfile_ok, sofar) ==
    IF dirs # << >> /\ InDir(file_name, dirs[1]) /\ startfile_ok
      THEN Outcome(None, FALSE, sofar, <<MusicPath(file_name)>>)
      ELSE Outcome(None, TRUE, sofar, << >>)

\* file_name, file_score = find(file, file_dir) and what follows it
play_found(found, dirs, startfile_ok) ==
    IF found.ret = None
      THEN Outcome(None, TRUE, found.logged, << >>)        \* unpacking None
    ELSE IF found.ret.n = 0
      THEN Outcome(Str(found.ret.s), FALSE, found.logged, << >>)
    ELSE startfile(found.ret.s, dirs, startfile_ok, found.logged)

\* the body of play_music; pick is the draw of random.choice
play_music_body(file, dirs, startfile_ok, pick) ==
    IF file # None
      THEN Only({play_found(found, dirs, startfile_ok) :
                    found \in {find(file.s, dirs, DefaultMinScore)}})
    ELSE IF dirs = << >> \/ pick \notin 1..Len(dirs[1])
      THEN Raises                  \* listdir of a missing directory, choice([])
    ELSE startfile(dirs[1][pick], dirs, startfile_ok, << >>)

play_music(file, dirs, startfile_ok, pick) ==
    try_except("play_music", play_music_body(file, dirs, startfile_ok, pick))

\* what random.choice may draw from the files of the music directory
Picks(dirs) == IF dirs = << >> \/ dirs[1] = << >> THEN {0} ELSE 1..Len(dirs[1])

-----------------------------------------------------------------------------
(* play_music_by_attribute *)

\* the attribute columns of the dataset, in the order of master_dict
Columns == <<"track_name", "track_artist", "track_albumartist", "track_composer",
             "track_album", "track_genre", "track_duration", "track_year",
             "track_filesize">>

ColumnSet == {Columns[i] : i \in 1..Len(Columns)}

\* a missing value of the dataset
NaN == <<"<nan>">>

\* f'Sorry, {title}. I couldn\'t find any combination of the search parameters.'
no_combination == <<"Sorry, {title}. I couldn't find any combination of the search parameters.">>

\* df[column].dropna().tolist()
RECURSIVE dropna_tolist(_, _)
dropna_tolist(rows, column) ==
    IF rows = << >> THEN << >>
    ELSE (IF Head(rows)[column] = NaN THEN << >> ELSE <<Head(rows)[column]>>)
         \o dropna_tolist(Tail(rows), column)

\* master_dict: string_match of every fragment against its column
master_dict(frags, rows) ==
    [c \in ColumnSet |-> string_match(frags[c], dropna_tolist(rows, c), DefaultMinScore)]

\* the keys of filtered_dict, in dict order: the columns whose value is not None
RECURSIVE filtered_keys(_, _)
filtered_keys(master, columns) ==
    IF columns = << >> THEN << >>
    ELSE (IF master[Head(columns)].ret # None THEN <<Head(columns)>> ELSE << >>)
         \o filtered_keys(master, Tail(columns))

\* a loop that forgets the mask so far: filter_series = (df[column] == value)
RECURSIVE apply_filters_overwrite(_, _, _, _)
apply_filters_overwrite(keys, master, rows, filter_series) ==
    IF keys = << >> THEN filter_series
    ELSE apply_filters_overwrite(Tail(keys), master, rows,
             [i \in 1..Len(rows) |-> rows[i][Head(keys)] = master[Head(keys)].ret.s])

\* for column, value in filtered_dict.items():
\*     filter_series = ((df[column] == value) & filter_series)
RECURSIVE apply_filters(_, _, _, _)
apply_filters(keys, master, rows, filter_series) ==
    IF keys = << >> THEN filter_series
    ELSE LET column == Head(keys)
             value == master[column].ret.s
         IN  apply_filters(Tail(keys), master, rows,
                 [i \in 1..Len(rows) |-> (rows[i][column] = value) /\ filter_series[i]])

\* Series(ones(df.shape[0], dtype=bool))
ones(rows) == [i \in 1..Len(rows) |-> TRUE]

\* df[filter_series]
RECURSIVE select_rows(_, _)
select_rows(rows, filter_series) ==
    IF rows = << >> THEN << >>
    ELSE (IF Head(filter_series) THEN <<Head(rows)>> ELSE << >>)
         \o select_rows(Tail(rows), Tail(filter_series))

\* randint(0, len(df[filter_series])): both ends included
randint_range(n) == 0..n

\* the error prints of the string_match calls, in the order of the calls
RECURSIVE master_logged(_, _)
master_logged(master, columns) ==
    IF columns = << >> THEN << >>
    ELSE master[Head(columns)].logged \o master_logged(master, Tail(columns))

NoTrace == [master |-> << >>, keys |-> << >>, mask |-> << >>, played |-> << >>]

Selection(out, sel, played) ==
    [ret |-> out.ret, exc |-> out.exc, logged |-> out.logged, started |-> out.started,
     master |-> sel.master, keys |-> sel.keys, mask |-> sel.mask, played |-> played]

\* filtered_dict and filter_series of a dataset that was read
filters(master, rows) ==
    Only({[master |-> master, keys |-> keys,
           mask |-> apply_filters(keys, master, rows, ones(rows))] :
             keys \in {filtered_keys(master, Columns)}})

\* play_music(<the file of the row>): its return value is dropped
play_row(row, sel, printed, dirs, startfile_ok) ==
    Only({Selection(Outcome(None, FALSE, printed \o pm.logged, pm.started),
                    sel, <<row.music_file>>) :
             pm \in {play_music(Str(row.music_file), dirs, startfile_ok, 0)}})

\* a choice whose last branch indexes the selection although it is empty
choose_row_no_else(sel, subset, printed, dirs, startfile_ok, draw) ==
    IF Len(subset) > 1 /\ draw + 1 \in 1..Len(subset)
      THEN play_row(subset[draw + 1], sel, printed, dirs, startfile_ok)
    ELSE IF Len(subset) = 1
      THEN play_row(subset[1], sel, printed, dirs, startfile_ok)
    ELSE Selection(Outcome(None, TRUE, printed, << >>), sel, << >>)

\* the choice among the rows the filters leave; draw is what randint returns
choose_row(sel, subset, printed, dirs, startfile_ok, draw) ==
    IF Len(subset) > 1
      THEN IF draw + 1 \in 1..Len(subset)
             THEN play_row(subset[draw + 1], sel, printed, dirs, startfile_ok)
             ELSE Selection(Outcome(None, TRUE, printed, << >>), sel, << >>)  \* .iloc
    ELSE IF Len(subset) = 1
      THEN play_row(subset[1], sel, printed, dirs, startfile_ok)
    ELSE Selection(Outcome(Str(no_combination), FALSE, printed, << >>), sel, << >>)

\* the body of play_music_by_attribute
play_music_by_attribute_body(music_file, frags, csv, dirs, startfile_ok, draw) ==
    IF music_file # None
      THEN Only({Selection(Outcome(None, FALSE, pm.logged, pm.started),
                           NoTrace, <<music_file.s>>) :
                    pm \in {play_music(music_file, dirs, startfile_ok, 0)}})
    ELSE IF csv.status # "ok"
      THEN Selection(Raises, NoTrace, << >>)            \* read_csv, df[column]
    ELSE Only({choose_row(sel, select_rows(csv.rows, sel.mask),
                          master_logged(sel.master, Columns), dirs, startfile_ok, draw) :
                  sel \in {filters(master_dict(frags, csv.rows), csv.rows)}})

play_music_by_attribute(music_file, frags, csv, dirs, startfile_ok, draw) ==
    try_except("play_music_by_attribute",
               play_music_by_attribute_body(music_file, frags, csv, dirs, startfile_ok, draw))

\* what randint may return in the call: it is drawn only with several rows left
Draws(music_file, frags, csv) ==
    IF music_file # None \/ csv.status # "ok" THEN {0}
    ELSE Only({IF Len(subset) > 1 THEN randint_range(Len(subset)) ELSE {0} :
                  subset \in {select_rows(csv.rows,
                                 filters(master_dict(frags, csv.rows), csv.rows).mask)}})

-----------------------------------------------------------------------------
(* current_weather, forecast_weather, current_forecast_weather *)

IntVal(n) == [t |-> "int", s |-> << >>, n |-> n]

\* the text an f-string puts for a value
format(v) == IF v.t = "int" THEN IntStr(v.n) ELSE IF v.t = "None" THEN <<"None">> ELSE v.s

\* the six sentences of current_weather for the day
current_at_am(w) ==
    << <<"Currently in ", w.name, " it's ", w.temp_c, "°C and ", w.condition,
         " with winds running upto ", w.wind_kph, " km/h.">>,
       <<"Right now in ", w.name, " it's ", w.temp_c, "°C and ", w.condition,
         " but because of the humidity it feels like ", w.feelslike_c, "°C.">>,
       <<"It is currently ", w.condition, " in ", w.name, " with  ", w.temp_c,
         "°C and winds running upto ", w.wind_kph, " km/h.">>,
       <<"It is ", w.temp_c, "°C and ", w.condition, " in ", w.name,
         " with winds running upto ", w.wind_kph,
         " km/h but due to the current humidity it feels like ", w.feelslike_c, "°C.">>,
       <<"Weather in ", w.name, " is ", w.temp_c, "°C with ", w.condition,
         " conditions and winds blowing in ", w.wind_dir, " direction.">>,
       <<"The weather today in ", w.name, " is ", w.condition, " with ",
         w.temp_c, "°C.">> >>

\* the five sentences of current_weather for the night
current_at_pm(w) ==
    << <<"Tonight the weather is ", w.condition, " in ", w.name,
         " with winds blowing in ", w.wind_dir, " direction at ", w.wind_kph,
         " km/h. Temperature is ", w.temp_c, "°C.">>,
       <<"Tonight the weather is ", w.condition, " in ", w.name, " with ",
         w.temp_c, "°C but due to ", w.humidity, "% humidity it feels like ",
         w.feelslike_c, "°C.">>,
       <<"The weather tonight in ", w.name, " is ", w.condition, " with ",
         w.temp_c, "°C.">>,
       <<"Right now in ", w.name, " it's ", w.temp_c, "°C and ", w.condition,
         " but due to humidity it feels like ", w.feelslike_c, "°C.">>,
       <<"Currently in ", w.name, " it's ", w.temp_c, "°C and ", w.condition,
         " with winds running upto ", w.wind_kph, " km/h.">> >>

\* random.choice(seq) with the draw given; choice of nothing raises
choice(seq, draw) == IF draw \in 1..Len(seq) THEN Returns(Str(seq[draw])) ELSE Raises

\* the body of current_weather: the request or a key of its answer may fail
current_weather_body(city, w, draw) ==
    IF w.status # "ok" THEN Raises
    ELSE IF w.is_day = 0 THEN choice(current_at_pm(w), draw)
    ELSE choice(current_at_am(w), draw)

current_weather(city, w, draw) ==
    try_except("current_weather", current_weather_body(city, w, draw))

\* the sentences of forecast_weather: for the day, for the night, for a
\* number of hours and for a number of minutes
forecast_at_am(w) ==
    << <<"Today, it will be ", w.forecast_condition, " with maximum temperature of ",
         w.maxtemp_c, "°C and minimum of ", w.mintemp_c, "°C.">>,
       <<"The temperature in ", w.name, " is predicted to be ", w.avgtemp_c,
         "°C and with ", w.forecast_condition, ".">>,
       <<"There will be winds blowing upto ", w.maxwind_kph,
         " km/h and temperature would be anywhere between ", w.maxtemp_c,
         "°C and ", w.mintemp_c, "°C.">>,
       <<"It is forecasted to be about ", w.avgtemp_c, "°C with ",
         w.forecast_condition, " in ", w.name, ".">> >>

forecast_at_pm(w) ==
    << <<"Tonight, the weather in ", w.name, " is predicted to be ",
         w.forecast_condition, " with maximum temperature of ", w.maxtemp_c,
         "°C and minimum of ", w.mintemp_c, "°C.">>,
       <<"Well, tonight it is forecasted to be ", w.avgtemp_c, "°C with ",
         w.forecast_condition, " in ", w.name, ".">> >>

\* with_hrs and with_mins: span is the text of hours or mins, unit their name
with_span(w, span, unit) ==
    << <<"Well, the weather for ", w.name, " in next ">> \o span
          \o <<" ", unit, " is forecasted to be ", w.forecast_condition,
               " with maximum of ", w.maxtemp_c, "°C and minimum of ", w.mintemp_c, "°C.">>,
       <<"The climate for ", w.name, " in next ">> \o span
          \o <<" ", unit, " is predicted to be ", w.avgtemp_c, "°C and with ",
               w.forecast_condition, ".">>,
       <<"In ", w.name, ", is forecasted to be about ", w.avgtemp_c, "°C with ",
         w.forecast_condition, " in next ">> \o span \o <<" ", unit, ".">> >>

\* v is None or v is 'None' or v is 'null': identity with a str literal holds
\* or not as the interpreter shares the object (same)
is_none(v, same) ==
    v = None \/ (same /\ (v = Str(<<"None">>) \/ v = Str(<<"null">>)))

\* int(v) raises for the texts 'None' and 'null'
int_fails(v) == v.t # "int"

\* the request forecast_weather makes: a number of hours, a day, or a fault
\* of int()
forecast_request(hours, mins, same) ==
    IF is_none(hours, same)
      THEN IF is_none(mins, same) THEN [fault |-> FALSE, hour |-> 5, days |-> 0]
           ELSE IF int_fails(mins) THEN [fault |-> TRUE, hour |-> 0, days |-> 0]
           ELSE [fault |-> FALSE, hour |-> mins.n \div 60, days |-> 0]
    ELSE IF int_fails(hours) THEN [fault |-> TRUE, hour |-> 0, days |-> 0]
    ELSE IF hours.n >= 23 THEN [fault |-> FALSE, hour |-> 0, days |-> 1]
    ELSE [fault |-> FALSE, hour |-> hours.n, days |-> 0]

\* the body of forecast_weather
forecast_weather_body(city, hours, mins, w, same, draw) ==
    IF forecast_request(hours, mins, same).fault \/ w.status # "ok" THEN Raises
    ELSE IF is_none(hours, same)
      THEN IF is_none(mins, same)
             THEN IF w.is_day = 0 THEN choice(forecast_at_pm(w), draw)
                  ELSE choice(forecast_at_am(w), draw)
           ELSE choice(with_span(w, format(mins), "mins"), draw)
    ELSE choice(with_span(w, format(hours), "hours"), draw)

forecast_weather(city, hours, mins, w, same, draw) ==
    try_except("forecast_weather", forecast_weather_body(city, hours, mins, w, same, draw))

\* str + str; anything else with + raises TypeError
concat(x, y, sofar) ==
    IF x.t = "str" /\ y.t = "str" THEN Outcome(Str(x.s \o y.s), FALSE, sofar, << >>)
    ELSE Outcome(None, TRUE, sofar, << >>)

\* current_weather(city) + ' ' is computed before forecast_weather is called
current_forecast_weather_rest(cw, city, forecast, same, draw) ==
    Only({IF head.exc THEN head
          ELSE Only({concat(head.ret, fw.ret, head.logged \o fw.logged) :
                       fw \in {forecast_weather(city, None, None, forecast, same, draw)}}) :
            head \in {concat(cw.ret, Str(<<" ">>), cw.logged)}})

\* current_forecast_weather: no try around the sum
current_forecast_weather(city, current, forecast, same, draws) ==
    Only({current_forecast_weather_rest(cw, city, forecast, same, draws[2]) :
            cw \in {current_weather(city, current, draws[1])}})

-----------------------------------------------------------------------------
(* The inputs the calls are made with *)

\* file names, tags and queries
Names == {<<"a">>, <<"b">>, <<"a", "b">>, <<"A", "B">>, <<"b", "a">>}

\* candidate lists: up to MaxCands names, in any order, repeats allowed
Lists == UNION {[1..k -> Names] : k \in 0..MaxCands}

\* a list with an entry that is no str
Malformed == <<NotAStr>>

MinScores == {-1, 49, DefaultMinScore, 100}

Texts == {Str(n) : n \in Names}

\* the music directory: missing, or its own files, or at most one file of its
\* own and a subdirectory holding one file
Walks == {<< >>} \cup {<<files>> : files \in Lists}
                 \cup {<<files, <<<<"a", "b">>>>>> : files \in {<< >>} \cup {<<n>> : n \in Names}}

\* the file names of the dataset, row by row
FileNames == <<<<"a", "b">>, <<"b", "a">>, <<"a">>, <<"b">>, <<"A", "B">>>>

TagCells == {NaN, <<"a">>, <<"b">>}
YearCells == {NaN, NotAStr}      \* a year column is empty or read as numbers

Row(k, artist, genre, year) ==
    [music_file |-> FileNames[k], track_name |-> NaN, track_artist |-> artist,
     track_albumartist |-> NaN, track_composer |-> NaN, track_album |-> NaN,
     track_genre |-> genre, track_duration |-> NaN, track_year |-> year,
     track_filesize |-> NaN]

\* datasets of up to MaxRows rows: artist and genre vary by row, the year by
\* dataset
Datasets ==
    UNION {{[k \in 1..n |-> Row(k, c[k][1], c[k][2], year)] :
               c \in [1..n -> TagCells \X TagCells], year \in YearCells} : n \in 0..MaxRows}

\* the query fragments: artist, genre and year may be given
FragTexts == {None, Str(<<"a">>), Str(<<"A">>)}

Fragments ==
    {[c \in ColumnSet |-> CASE c = "track_artist" -> f[1]
                            [] c = "track_genre" -> f[2]
                            [] c = "track_year" -> f[3]
                            [] OTHER -> None] :
        f \in FragTexts \X FragTexts \X {None, Str(<<"a">>)}}

NoFragments == [c \in ColumnSet |-> None]

\* the music directory holding the files the dataset names
DatasetDir(rows) == <<[k \in 1..Len(rows) |-> rows[k].music_file]>>

Csv(status, rows) == [status |-> status, rows |-> rows]

\* the answer of the weather service: status says whether the request and
\* every key read from its answer succeed
Weather(status, is_day) ==
    [status |-> status, is_day |-> is_day, name |-> "Pune", condition |-> "Mist",
     temp_c |-> "21.0", wind_kph |-> "6.1", wind_dir |-> "WSW", humidity |-> "83",
     feelslike_c |-> "21.0", forecast_condition |-> "Sunny", maxtemp_c |-> "30.1",
     mintemp_c |-> "18.4", avgtemp_c |-> "24.2", maxwind_kph |-> "11.9"]

Answers == {Weather("ok", d) : d \in {0, 1}}
              \cup {Weather(status, 0) : status \in {"request_failed", "key_missing"}}

Cities == {Str(<<"Pune">>), Str(<<"Xyz">>)}

\* hours and mins as callers give them
Spans == {None, Str(<<"None">>), Str(<<"null">>), IntVal(3), IntVal(23), IntVal(90)}

\* what random.choice may draw in current_weather and in forecast_weather
CurrentDraws(w) ==
    IF w.status # "ok" THEN {0}
    ELSE IF w.is_day = 0 THEN 1..Len(current_at_pm(w)) ELSE 1..Len(current_at_am(w))

ForecastDraws(hours, mins, w, same) ==
    IF forecast_request(hours, mins, same).fault \/ w.status # "ok" THEN {0}
    ELSE IF is_none(hours, same) /\ is_none(mins, same)
      THEN IF w.is_day = 0 THEN 1..Len(forecast_at_pm(w)) ELSE 1..Len(forecast_at_am(w))
    ELSE 1..Len(with_span(w, << >>, "hours"))

-----------------------------------------------------------------------------
(* The state machine: a call is chosen with its inputs, then it runs *)

InitStringMatch ==
    /\ op = "string_match"
    /\ args \in [text : Texts \cup {None}, text_list : Lists \cup {Malformed},
                 min_score : MinScores]
    /\ env = [dirs |-> << >>]

InitFind ==
    /\ op = "find"
    /\ args \in [file : Texts, min_score : MinScores]
    /\ env \in [dirs : Walks \cup {<<Malformed>>}]

InitPlayMusic ==
    /\ op = "play_music"
    /\ args \in [file : Texts \cup {None}]
    /\ env \in [dirs : Walks, startfile_ok : BOOLEAN]

\* by attributes: the dataset is read and the directory holds its files
InitByAttribute ==
    /\ op = "play_music_by_attribute"
    /\ args \in [music_file : {None}, frags : Fragments]
    /\ \/ \E rows \in Datasets :
             env = [csv |-> Csv("ok", rows), dirs |-> DatasetDir(rows),
                    startfile_ok |-> TRUE]
       \/ \E status \in {"unreadable", "missing_column"} :
             env = [csv |-> Csv(status, << >>), dirs |-> << >>, startfile_ok |-> TRUE]

\* by file name
InitByFile ==
    /\ op = "play_music_by_attribute"
    /\ args \in [music_file : Texts, frags : Fragments]
    /\ env \in [csv : {Csv("unreadable", << >>), Csv("ok", << >>),
                       Csv("ok", <<Row(1, <<"a">>, <<"a">>, NaN)>>)},
                dirs : {<< >>, <<<<FileNames[1], FileNames[2]>>>>}
                          \cup {<<<<n>>>> : n \in Names},
                startfile_ok : {TRUE}]

InitCurrentWeather ==
    /\ op = "current_weather"
    /\ args \in [city : Cities]
    /\ env \in [current : Answers]

InitForecastWeather ==
    /\ op = "forecast_weather"
    /\ args \in [city : Cities, hours : Spans, mins : Spans]
    /\ env \in [forecast : Answers, same : BOOLEAN]

\* the two requests of one call are answered independently
InitCurrentForecastWeather ==
    /\ op = "current_forecast_weather"
    /\ args \in [city : Cities]
    /\ env \in [current : Answers, forecast : Answers, same : BOOLEAN]

Init ==
    /\ pc = "call"
    /\ ret = None
    /\ raised = FALSE
    /\ logged = << >>
    /\ started = << >>
    /\ trace = NoTrace
    /\ \/ InitStringMatch
       \/ InitFind
       \/ InitPlayMusic
       \/ InitByAttribute
       \/ InitByFile
       \/ InitCurrentWeather
       \/ InitForecastWeather
       \/ InitCurrentForecastWeather

Finish(out, tr) ==
    /\ pc' = "done"
    /\ ret' = out.ret
    /\ raised' = out.exc
    /\ logged' = out.logged
    /\ started' = out.started
    /\ trace' = tr
    /\ UNCHANGED <<op, args, env>>

StringMatch ==
    /\ pc = "call"
    /\ op = "string_match"
    /\ \E out \in {string_match(args.text, args.text_list, args.min_score)} : Finish(out, NoTrace)

Find ==
    /\ pc = "call"
    /\ op = "find"
    /\ \E out \in {find(args.file.s, env.dirs, args.min_score)} : Finish(out, NoTrace)

PlayMusic ==
    /\ pc = "call"
    /\ op = "play_music"
    /\ \E pick \in Picks(env.dirs) :
          \E out \in {play_music(args.file, env.dirs, env.startfile_ok, pick)} :
             Finish(out, NoTrace)

PlayMusicByAttribute ==
    /\ pc = "call"
    /\ op = "play_music_by_attribute"
    /\ \E draw \in Draws(args.music_file, args.frags, env.csv) :
          \E out \in {play_music_by_attribute(args.music_file, args.frags, env.csv,
                                              env.dirs, env.startfile_ok, draw)} :
             Finish(out, [master |-> out.master, keys |-> out.keys,
                          mask |-> out.mask, played |-> out.played])

CurrentWeather ==
    /\ pc = "call"
    /\ op = "current_weather"
    /\ \E draw \in CurrentDraws(env.current) :
          \E out \in {current_weather(args.city, env.current, draw)} : Finish(out, NoTrace)

ForecastWeather ==
    /\ pc = "call"
    /\ op = "forecast_weather"
    /\ \E draw \in ForecastDraws(args.hours, args.mins, env.forecast, env.same) :
          \E out \in {forecast_weather(args.city, args.hours, args.mins,
                                       env.forecast, env.same, draw)} :
             Finish(out, NoTrace)

CurrentForecastWeather ==
    /\ pc = "call"
    /\ op = "current_forecast_weather"
    /\ \E draws \in CurrentDraws(env.current)
                      \X ForecastDraws(None, None, env.forecast, env.same) :
          \E out \in {current_forecast_weather(args.city, env.current, env.forecast,
                                               env.same, draws)} :
             Finish(out, NoTrace)

Next ==
    \/ StringMatch
    \/ Find
    \/ PlayMusic
    \/ PlayMusicByAttribute
    \/ CurrentWeather
    \/ ForecastWeather
    \/ CurrentForecastWeather

Spec == Init /\ [][Next]_vars

-----------------------------------------------------------------------------
(* Properties *)

Done(name) == pc = "done" /\ op = name

\* the operations built around the matcher
CoreOperations == {"find", "string_match", "play_music", "play_music_by_attribute"}

\* the files find matches against: those of the first directory that has any
RECURSIVE FirstFiles(_)
FirstFiles(dirs) ==
    IF dirs = << >> THEN << >>
    ELSE IF Head(dirs) # << >> THEN Head(dirs)
    ELSE FirstFiles(Tail(dirs))

\* a string_match call that reaches the shortlist loop with candidates
Matching ==
    /\ Done("string_match")
    /\ args.text # None
    /\ ~IsMalformed(args.text_list)
    /\ args.text_list # << >>

\* a find call that reaches the shortlist loop with candidates
Finding ==
    /\ Done("find")
    /\ ~IsMalformed(FirstFiles(env.dirs))
    /\ FirstFiles(env.dirs) # << >>

\* whether a later entry of the shortlist would pass the threshold
LaterWouldPass(text, guessed, min_score) ==
    \E i \in 2..Len(guessed) : partial_ratio_guess(text, guessed[i]) > min_score

\* C1: in find and string_match only the first entry of the shortlist is
\* compared with the threshold: when its re-score is not above min_score the
\* result is not-found, and the result is the one of the call whose only
\* candidate is that first entry, whatever the 2nd and 3rd entries are.
C1_OnlyTopRanked ==
    /\ Matching =>
         LET guessed == extract(args.text.s, args.text_list, Limit)
         IN  /\ partial_ratio_guess(args.text.s, guessed[1]) <= args.min_score
                  => ret = Str(no_match_text(args.text.s))
             /\ ret = string_match(args.text, <<guessed[1][1]>>, args.min_score).ret
    /\ Finding =>
         LET guessed == extract(args.file.s, FirstFiles(env.dirs), Limit)
         IN  /\ partial_ratio_guess(args.file.s, guessed[1]) <= args.min_score
                  => ret = Pair(no_match_file(args.file.s), no_match_score)
             /\ ret = find(args.file.s, <<<<guessed[1][1]>>>>, args.min_score).ret

\* a call answered not-found although a later shortlist entry would have
\* passed the threshold
C1_Witness ==
    /\ Matching
    /\ args.min_score = DefaultMinScore
    /\ LET guessed == extract(args.text.s, args.text_list, Limit)
       IN  /\ Len(guessed) = Limit
           /\ partial_ratio_guess(args.text.s, guessed[1]) <= args.min_score
           /\ LaterWouldPass(args.text.s, guessed, args.min_score)
    /\ ret = Str(no_match_text(args.text.s))

\* a play_music_by_attribute call by attributes whose dataset was read
ByAttribute ==
    /\ Done("play_music_by_attribute")
    /\ args.music_file = None
    /\ env.csv.status = "ok"

Range(seq) == {seq[i] : i \in 1..Len(seq)}

\* the fragment of column c was given and string_match answered not-found
Unmatched(c) ==
    /\ args.frags[c] # None
    /\ trace.master[c].ret = Str(no_match_text(args.frags[c].s))

\* the fragment of column c was given and string_match faulted on it
Faulted(c) ==
    /\ args.frags[c] # None
    /\ trace.master[c].logged # << >>

\* the fragment of column c was given and resolved to a value of the column
Matched(c) ==
    /\ args.frags[c] # None
    /\ trace.master[c].ret.t = "str"
    /\ \E i \in 1..Len(env.csv.rows) : env.csv.rows[i][c] = trace.master[c].ret.s

\* C2: a fragment that was given and for which string_match reports not-found
\* contributes no column filter.
C2_UnmatchedGivesNoFilter ==
    ByAttribute => \A c \in ColumnSet : Unmatched(c) => c \notin Range(trace.keys)

\* C3: when some row satisfies the final mask, exactly one row is passed to
\* play_music and it is a row that satisfies the mask.
C3_SelectsRowOfSubset ==
    (ByAttribute /\ \E i \in 1..Len(trace.mask) : trace.mask[i])
      => \E i \in 1..Len(trace.mask) :
            /\ trace.mask[i]
            /\ trace.played = <<env.csv.rows[i].music_file>>

\* C4: whatever min_score is, when a candidate is exactly the query the
\* matcher returns that candidate, find with score 100.
C4_ExactDuplicateReturned ==
    /\ (Matching /\ args.text.s \in Range(args.text_list))
         => ret = Str(args.text.s)
    /\ (Finding /\ args.file.s \in Range(FirstFiles(env.dirs)))
         => ret = Pair(args.file.s, 100)

\* C5: when string_match faults on a given fragment, play_music_by_attribute
\* ends like it does for a fragment without a match: nothing is selected or
\* played and the not-found message is returned.
C5_FaultLikeNotFound ==
    (ByAttribute /\ \E c \in ColumnSet : Faulted(c))
      => /\ trace.played = << >>
         /\ started = << >>
         /\ ret = Str(no_combination)

\* C7: with no candidate at all the matcher returns its not-found value:
\* string_match the message, find the message with score 0.
C7_EmptyCandidatesNotFound ==
    /\ (Done("string_match") /\ args.text # None /\ args.text_list = << >>)
         => ret = Str(no_match_text(args.text.s))
    /\ (Done("find") /\ FirstFiles(env.dirs) = << >>)
         => ret = Pair(no_match_file(args.file.s), no_match_score)

\* C8: two queries that differ only in letter case get the same answer from
\* the matcher: both not-found, or both the same match.
C8_CaseInsensitive ==
    Matching =>
      \A other \in Texts :
         Lower(other.s) = Lower(args.text.s) =>
            LET r == string_match(other, args.text_list, args.min_score).ret
            IN  /\ ret = Str(no_match_text(args.text.s))
                     <=> r = Str(no_match_text(other.s))
                /\ ret # Str(no_match_text(args.text.s)) => r = ret

\* C6: no fault leaves find, string_match, play_music or
\* play_music_by_attribute: whatever goes wrong inside, the call returns.
C6_NoFaultPropagates == (pc = "done" /\ op \in CoreOperations) => raised = FALSE

\* a call in which string_match faulted and then the row index was out of
\* range, both caught
C6_Witness ==
    /\ Done("play_music_by_attribute")
    /\ logged = <<"string_match", "play_music_by_attribute">>
    /\ ret = None
    /\ raised = FALSE

\* the orders a sequence of distinct columns can be put in
Perms(seq) ==
    {p \in [1..Len(seq) -> Range(seq)] :
        \A i, j \in 1..Len(seq) : i # j => p[i] # p[j]}

\* C9: the final mask holds for a row exactly when the row equals every
\* collected filter in its column; it is the same in whatever order the
\* filters are applied; without any fragment it holds for every row, and
\* every row can be the one selected.
C9_MaskIsConjunction ==
    ByAttribute =>
      LET rows == env.csv.rows
          Value(c) == trace.master[c].ret.s
      IN  /\ Range(trace.keys) = {c \in ColumnSet : trace.master[c].ret # None}
          /\ Len(trace.mask) = Len(rows)
          /\ \A i \in 1..Len(rows) :
                trace.mask[i] <=> \A c \in Range(trace.keys) : rows[i][c] = Value(c)
          /\ \A order \in Perms(trace.keys) :
                apply_filters(order, trace.master, rows, ones(rows)) = trace.mask
          /\ args.frags = NoFragments =>
                \A i \in 1..Len(rows) :
                   /\ trace.mask[i]
                   /\ \E draw \in Draws(None, args.frags, env.csv) :
                         play_music_by_attribute(None, args.frags, env.csv, env.dirs,
                                                 env.startfile_ok, draw).played
                           = <<rows[i].music_file>>

\* two filters were collected and they leave some rows and drop others
C9_Witness ==
    /\ ByAttribute
    /\ Len(trace.keys) = 2
    /\ \E i, j \in 1..Len(trace.mask) : trace.mask[i] /\ ~trace.mask[j]

\* every given fragment resolved to a value of its column
AllMatched ==
    /\ \E c \in ColumnSet : args.frags[c] # None
    /\ \A c \in ColumnSet : args.frags[c] # None => Matched(c)

\* no row carries all the resolved values together
NoRowHasAll ==
    \A i \in 1..Len(env.csv.rows) :
       \E c \in ColumnSet :
          args.frags[c] # None /\ env.csv.rows[i][c] # trace.master[c].ret.s

\* C10: when every given fragment matches a value of its column and no row
\* has them all, the not-found message is returned, nothing is played and no
\* fault is raised or caught.
C10_EmptyIntersectionNotFound ==
    (ByAttribute /\ AllMatched /\ NoRowHasAll)
      => /\ ret = Str(no_combination)
         /\ trace.played = << >>
         /\ started = << >>
         /\ logged = << >>
         /\ raised = FALSE

\* two fragments matched, each in another row
C10_Witness ==
    /\ ByAttribute
    /\ AllMatched
    /\ NoRowHasAll
    /\ Cardinality({c \in ColumnSet : args.frags[c] # None}) = 2
    /\ ret = Str(no_combination)

\* C11: with a music_file given, play_music_by_attribute resolves it as it
\* is: the dataset is not read, no fragment is matched, the fragments change
\* nothing, and the only file that can be played is the one named.
C11_FileBypassesMatching ==
    (Done("play_music_by_attribute") /\ args.music_file # None)
      => /\ trace.master = << >>
         /\ trace.keys = << >>
         /\ logged \in {<< >>, <<"play_music">>}
         /\ \A frags \in Fragments :
               LET other == play_music_by_attribute(args.music_file, frags, env.csv,
                                                    env.dirs, env.startfile_ok, 0)
               IN  other.ret = ret /\ other.started = started
         /\ started \in {<< >>, <<MusicPath(args.music_file.s)>>}
         /\ (env.dirs # << >> /\ InDir(args.music_file.s, env.dirs[1]))
               => started = <<MusicPath(args.music_file.s)>>

\* C12: a pair find returns has score 0 exactly when it is the not-found
\* pair, and a found pair scores above min_score and above 0; play_music
\* with a file plays (the shell being able to open files) exactly when find
\* reports a match, and returns the not-found message otherwise.
C12_ScoreZeroIffNotFound ==
    /\ (Done("find") /\ ret # None)
         => /\ ret.n = 0 <=> ret.s = no_match_file(args.file.s)
            /\ ret.s # no_match_file(args.file.s)
                 => (ret.n > args.min_score /\ ret.n > 0)
    /\ (Done("play_music") /\ args.file # None /\ env.startfile_ok)
         => LET found == find(args.file.s, env.dirs, DefaultMinScore).ret
                matched == found # None /\ found.s # no_match_file(args.file.s)
            IN  /\ started # << >> <=> matched
                /\ ~matched => ret = Str(no_match_file(args.file.s))

\* C13: when current_weather or forecast_weather fails inside and returns
\* no value, current_forecast_weather still returns to its caller.
C13_DegradesLikeParts ==
    (Done("current_forecast_weather")
       /\ (env.current.status # "ok" \/ env.forecast.status # "ok"))
      => raised = FALSE

====
